---- MODULE Spec2Model ----
(***************************************************************************)
(* A model of engarde/checks.py: eight validation checks over a table      *)
(* (a pandas DataFrame).  Every check reads the table it is handed, raises *)
(* AssertionError on a violation and returns the table otherwise.          *)
(*                                                                         *)
(* A table is a record                                                     *)
(*    columns : the column names, in order                                 *)
(*    index   : the row identifiers, in row order (duplicates allowed)     *)
(*    data    : column name -> the column's cells, in row order            *)
(*    dtypes  : column name -> the column's type tag                       *)
(* A cell is an integer or the missing value NaN.  Tables live in a heap   *)
(* and are handed around by reference, as Python objects are.              *)
(***************************************************************************)
EXTENDS Integers, Sequences, FiniteSets, TLC

VARIABLES heap, df, call, result

vars == <<heap, df, call, result>>

(* ------------------------------ bounds --------------------------------- *)

\* rows and cell values of the tables of Spec (one column) and SpecCols
\* (two columns)
MaxRows == 2
MaxVal == 1
\* rows and cell values of the one-column tables of SpecMono
MonoRows == 3
MonoMaxVal == 2
\* rows and cell values of the one-column tables of SpecStd
StdRows == 13
StdMaxVal == 4
\* the largest multiplier n tried for within_n_std
MaxN == 3
\* rows and row identifiers of the tables of SpecIndex
IdxRows == 4
MaxId == 3

(* ------------------------------ values --------------------------------- *)

\* The missing value.  Every ordering comparison with it is false.
NaN == -1

\* n=3, the default of within_n_std
DefaultN == 3

RowIds == {1, 2}
Dtypes == {"int64", "float64"}
\* increasing=True, increasing=False, increasing=None
Directions == {"True", "False", "None"}

\* Python's None for an optional argument, and a given argument
None == <<>>
Some(x) == <<x>>

Range(s) == {s[i] : i \in 1..Len(s)}

isnull(v) == v = NaN

\* a < b, a > b, a <= b on cells: false when either side is missing
Lt(a, b) == ~isnull(a) /\ ~isnull(b) /\ a < b
\* fault: a >= b where a > b is meant, making a bound exclusive
GtOrEqual(a, b) == ~isnull(a) /\ ~isnull(b) /\ a >= b
Gt(a, b) == Lt(b, a)
Le(a, b) == ~isnull(a) /\ ~isnull(b) /\ a <= b

\* the sum of a sequence of integers
RECURSIVE Sum(_)
Sum(s) == IF Len(s) = 0 THEN 0 ELSE Head(s) + Sum(Tail(s))

\* the elements of a set of integers, ascending
RECURSIVE SortedSeq(_)
SortedSeq(S) == IF S = {} THEN <<>>
                ELSE LET m == CHOOSE x \in S : \A y \in S : x <= y
                     IN <<m>> \o SortedSeq(S \ {m})

\* the elements of s at the positions where keep is true, in order
RECURSIVE Select(_, _)
Select(s, keep) ==
    IF Len(s) = 0 THEN <<>>
    ELSE (IF Head(keep) THEN <<Head(s)>> ELSE <<>>) \o Select(Tail(s), Tail(keep))

(* ------------------------------ tables --------------------------------- *)

Rows(t) == 1..Len(t.index)

\* df.shape
shape(t) == <<Len(t.index), Len(t.columns)>>

\* the dtype pandas infers for a column of numbers: float64 once a cell is
\* missing, int64 or float64 otherwise
DtypeOk(col, d) == (\E i \in 1..Len(col) : isnull(col[i])) => d = "float64"

\* any row identifiers, and the identifiers 0..n-1 a table gets by default
AnyIndex(ids) == [n \in 0..(MaxRows + IdxRows) |-> [1..n -> ids]]
RangeIndex == [n \in 0..(MaxRows + MonoRows) |-> {[i \in 1..n |-> i - 1]}]

\* the tables of at most maxRows rows over the given columns and cell
\* values; indexes[n] are the indexes a table of n rows may have
Tables(columns, maxRows, values, indexes) ==
    UNION {
        { [columns |-> columns, index |-> idx, data |-> dat, dtypes |-> dty] :
            idx \in indexes[n],
            dat \in [Range(columns) -> [1..n -> values]],
            dty \in [Range(columns) -> Dtypes] }
        : n \in 0..maxRows }

\* the non-decreasing sequences of at most maxLen cells drawn from lo..hi
RECURSIVE SortedColumns(_, _, _)
SortedColumns(lo, hi, maxLen) ==
    {<<>>} \cup (IF maxLen = 0 THEN {}
                 ELSE UNION {{<<x>> \o s : s \in SortedColumns(x, hi, maxLen - 1)} : x \in lo..hi})

\* one-column tables whose column is sorted, with the default index
SortedTables(c, maxRows, maxVal) ==
    { [columns |-> <<c>>, index |-> [i \in 1..Len(col) |-> i - 1],
       data |-> [k \in {c} |-> col], dtypes |-> [k \in {c} |-> "int64"]] :
        col \in SortedColumns(0, maxVal, maxRows) }

WellTyped(t) == \A c \in Range(t.columns) : DtypeOk(t.data[c], t.dtypes[c])

\* columns of whole numbers are int64 unless a cell is missing
DefaultTyped(t) ==
    \A c \in Range(t.columns) :
        t.dtypes[c] = (IF \E i \in Rows(t) : isnull(t.data[c][i]) THEN "float64" ELSE "int64")

(* --------------------------- failure reports --------------------------- *)

\* A mask is a table of booleans: [columns, index, data].
\* bad_locations(mask): the (row identifier, column name) pairs of the true
\* cells, row by row and, within a row, column by column.
RECURSIVE LocateRow(_, _, _)
LocateRow(mask, i, cols) ==
    IF Len(cols) = 0 THEN <<>>
    ELSE (IF mask.data[Head(cols)][i] THEN << <<mask.index[i], Head(cols)>> >> ELSE <<>>)
         \o LocateRow(mask, i, Tail(cols))

RECURSIVE LocateFrom(_, _)
LocateFrom(mask, i) ==
    IF i > Len(mask.index) THEN <<>>
    ELSE LocateRow(mask, i, mask.columns) \o LocateFrom(mask, i + 1)

bad_locations(mask) == LocateFrom(mask, 1)

\* the outcome of a call: the table reference returned, or the failure
\* raised with its payload; `at` is the column the loop stood at when it
\* raised (None for a check that does not loop over columns)
\* fault: the check returns a copy, a new reference
PassCopy(ref) == [outcome |-> "pass", ret |-> Some(ref + 1), payload |-> None, at |-> None]
Pass(ref) == [outcome |-> "pass", ret |-> Some(ref), payload |-> None, at |-> None]
Raise(payload, at) == [outcome |-> "fail", ret |-> None, payload |-> payload, at |-> at]

(* ----------------------------- none_missing ---------------------------- *)

\* df[columns].isnull()
IsnullMask(t, columns) ==
    [columns |-> columns, index |-> t.index,
     data |-> [c \in Range(columns) |-> [i \in Rows(t) |-> isnull(t.data[c][i])]]]

\* mask.any().any()
AnyTrue(mask) == \E c \in Range(mask.columns) : \E i \in 1..Len(mask.index) : mask.data[c][i]

\* fault: the columns argument is not applied
none_missing_all(h, ref, columns) ==
    LET missing == IsnullMask(h[ref], h[ref].columns)
    IN IF AnyTrue(missing) THEN Raise(bad_locations(missing), None)
       ELSE Pass(ref)

none_missing(h, ref, columns) ==
    LET t == h[ref]
        cols == IF columns = None THEN t.columns ELSE columns[1]
        missing == IsnullMask(t, cols)
    IN IF AnyTrue(missing) THEN Raise(bad_locations(missing), None)
       ELSE Pass(ref)

(* ----------------------------- is_monotonic ---------------------------- *)

\* pd.Index(col).is_monotonic_increasing / is_monotonic_decreasing: every
\* cell compares <= (>=) to its successor.  A missing cell compares false
\* with its neighbours, and a column whose single cell is missing is
\* reported as not monotonic either way.
is_monotonic_increasing(s) ==
    /\ Len(s) = 1 => ~isnull(s[1])
    /\ \A i \in 1..(Len(s) - 1) : Le(s[i], s[i + 1])

is_monotonic_decreasing(s) ==
    /\ Len(s) = 1 => ~isnull(s[1])
    /\ \A i \in 1..(Len(s) - 1) : Le(s[i + 1], s[i])

\* fault: >= 0 where > 0 is meant
DiffsNonNegative(s) ==
    \A i \in 1..(Len(s) - 1) :
        (~isnull(s[i]) /\ ~isnull(s[i + 1])) => s[i + 1] - s[i] >= 0

\* (s.to_series().diff().dropna() > 0).all(): the differences of
\* consecutive cells, those with a missing side dropped, are all positive
DiffsAllPositive(s) ==
    \A i \in 1..(Len(s) - 1) :
        (~isnull(s[i]) /\ ~isnull(s[i + 1])) => s[i + 1] - s[i] > 0

\* fault: .any() where .all() is meant
DiffsAnyNegative(s) ==
    \E i \in 1..(Len(s) - 1) :
        ~isnull(s[i]) /\ ~isnull(s[i + 1]) /\ s[i + 1] - s[i] < 0

\* (s.to_series().diff().dropna() < 0).all()
DiffsAllNegative(s) ==
    \A i \in 1..(Len(s) - 1) :
        (~isnull(s[i]) /\ ~isnull(s[i + 1])) => s[i + 1] - s[i] < 0

\* fault: increasing=None taken as increasing, the decreasing branch lost
MonotonicGoodOneWay(s, increasing, strict) ==
    LET base == IF increasing = "False" THEN is_monotonic_decreasing(s)
                ELSE is_monotonic_increasing(s)
        tight == IF increasing = "False" THEN DiffsAllNegative(s)
                 ELSE DiffsAllPositive(s)
    IN IF strict THEN base /\ tight ELSE base

\* `good` for one column; increasing is "True", "False" or "None"
MonotonicGood(s, increasing, strict) ==
    LET base == IF increasing = "True" THEN is_monotonic_increasing(s)
                ELSE IF increasing = "None"
                     THEN is_monotonic_increasing(s) \/ is_monotonic_decreasing(s)
                     ELSE is_monotonic_decreasing(s)
        tight == IF increasing = "True" THEN DiffsAllPositive(s)
                 ELSE IF increasing = "None"
                      THEN DiffsAllPositive(s) \/ DiffsAllNegative(s)
                      ELSE DiffsAllNegative(s)
    IN IF strict THEN base /\ tight ELSE base

\* the loop over items: a sequence of <<col, <<increasing, strict>>>>
RECURSIVE MonotonicLoop(_, _, _)
MonotonicLoop(t, ref, items) ==
    IF Len(items) = 0 THEN Pass(ref)
    ELSE LET col == Head(items)[1]
             increasing == Head(items)[2][1]
             strict == Head(items)[2][2]
         IN IF ~MonotonicGood(t.data[col], increasing, strict)
            THEN Raise(None, Some(col))
            ELSE MonotonicLoop(t, ref, Tail(items))

is_monotonic(h, ref, items, increasing, strict) ==
    LET t == h[ref]
        its == IF items = None
               THEN [i \in 1..Len(t.columns) |-> <<t.columns[i], <<increasing, strict>>>>]
               ELSE items[1]
    IN MonotonicLoop(t, ref, its)

(* ------------------------------- is_shape ------------------------------ *)

\* the failure carries the text "Expected shape: ... Actual shape: ...",
\* kept here as the two shapes it is formatted from
is_shape(h, ref, shp) ==
    LET t == h[ref]
    IN IF shape(t) # shp
       THEN Raise([expected |-> shp, actual |-> shape(t)], None)
       ELSE Pass(ref)

(* ----------------------------- unique_index ---------------------------- *)

\* df.index.is_unique
is_unique(idx) == \A i, j \in 1..Len(idx) : i # j => idx[i] # idx[j]

\* fault: every occurrence of a repeated identifier is listed
get_duplicates_all(idx) ==
    Select(idx, [i \in 1..Len(idx) |-> \E j \in 1..Len(idx) : i # j /\ idx[i] = idx[j]])

\* df.index.get_duplicates(): the identifiers that occur more than once,
\* each once, ascending
get_duplicates(idx) ==
    SortedSeq({x \in Range(idx) : \E i, j \in 1..Len(idx) : i # j /\ idx[i] = x /\ idx[j] = x})

unique_index(h, ref) ==
    LET t == h[ref]
    IN IF ~is_unique(t.index) THEN Raise(get_duplicates(t.index), None)
       ELSE Pass(ref)

(* ------------------------------ within_set ----------------------------- *)

\* df[k].isin(v)
isin(col, v) == [i \in 1..Len(col) |-> col[i] \in v]

\* df.loc[~df[k].isin(v), k]: the cells outside v, keyed by row identifier
NotInSet(t, k, v) ==
    Select([i \in Rows(t) |-> <<t.index[i], t.data[k][i]>>],
           [i \in Rows(t) |-> ~isin(t.data[k], v)[i]])

\* fault: the loop runs on and the last offending column is reported
RECURSIVE WithinSetLoopLast(_, _, _)
WithinSetLoopLast(t, ref, items) ==
    IF Len(items) = 0 THEN Pass(ref)
    ELSE LET k == Head(items)[1]
             v == Head(items)[2]
             rest == WithinSetLoopLast(t, ref, Tail(items))
         IN IF rest.outcome = "fail" THEN rest
            ELSE IF ~(\A i \in Rows(t) : isin(t.data[k], v)[i])
                 THEN Raise(<<"Not in set", NotInSet(t, k, v)>>, Some(k))
                 ELSE rest

\* the loop over items: a sequence of <<k, v>>, v a set of allowed values
RECURSIVE WithinSetLoop(_, _, _)
WithinSetLoop(t, ref, items) ==
    IF Len(items) = 0 THEN Pass(ref)
    ELSE LET k == Head(items)[1]
             v == Head(items)[2]
         IN IF ~(\A i \in Rows(t) : isin(t.data[k], v)[i])
            THEN Raise(<<"Not in set", NotInSet(t, k, v)>>, Some(k))
            ELSE WithinSetLoop(t, ref, Tail(items))

within_set(h, ref, items) == WithinSetLoop(h[ref], ref, items)

(* ----------------------------- within_range ---------------------------- *)

\* (lower > df[k]) | (upper < df[k]), keyed by row identifier
OutsideRange(t, k, lower, upper) ==
    [i \in Rows(t) |-> <<t.index[i], Gt(lower, t.data[k][i]) \/ Lt(upper, t.data[k][i])>>]

\* the loop over items: a sequence of <<k, <<lower, upper>>>>
RECURSIVE WithinRangeLoop(_, _, _)
WithinRangeLoop(t, ref, items) ==
    IF Len(items) = 0 THEN Pass(ref)
    ELSE LET k == Head(items)[1]
             lower == Head(items)[2][1]
             upper == Head(items)[2][2]
         IN IF (\E i \in Rows(t) : Gt(lower, t.data[k][i]))
               \/ (\E i \in Rows(t) : Lt(upper, t.data[k][i]))
            THEN Raise(<<"Outside range", OutsideRange(t, k, lower, upper)>>, Some(k))
            ELSE WithinRangeLoop(t, ref, Tail(items))

within_range(h, ref, items) == WithinRangeLoop(h[ref], ref, items)

(* ----------------------------- within_n_std ---------------------------- *)

\* What df.mean() and df.std() reduce over: the column's non-missing
\* cells.  With k such cells, sum S and sum of squares Q,
\*   mean = S / k   and   std^2 = (k*Q - S^2) / (k * (k - 1)),
\* and std is missing for k < 2.
Count(col) == Sum([i \in 1..Len(col) |-> IF isnull(col[i]) THEN 0 ELSE 1])
Total(col) == Sum([i \in 1..Len(col) |-> IF isnull(col[i]) THEN 0 ELSE col[i]])
TotalSq(col) == Sum([i \in 1..Len(col) |-> IF isnull(col[i]) THEN 0 ELSE col[i] * col[i]])

\* k * (k - 1) * std^2: zero exactly when std is zero
StdScaled(k, S, Q) == k * Q - S * S

\* fault: <= where < is meant
InlierInclusive(v, n, k, S, Q) ==
    /\ ~isnull(v)
    /\ k >= 2
    /\ (k * v - S) * (k * v - S) * (k - 1) <= n * n * k * (k * Q - S * S)

\* fault: the cells of a column of zero standard deviation taken as inliers
InlierUnlessConstant(v, n, k, S, Q) ==
    /\ ~isnull(v)
    /\ k >= 2
    /\ \/ k * Q - S * S = 0
       \/ (k * v - S) * (k * v - S) * (k - 1) < n * n * k * (k * Q - S * S)

\* np.abs(v - mean) < n * std for a cell v, n >= 0, in exact arithmetic:
\* both sides squared and multiplied by k^2 * (k - 1).  A comparison with
\* a missing side (the cell, or the std of fewer than two cells) is false.
Inlier(v, n, k, S, Q) ==
    /\ ~isnull(v)
    /\ k >= 2
    /\ (k * v - S) * (k * v - S) * (k - 1) < n * n * k * StdScaled(k, S, Q)

\* one column of ~inliers
Outliers(col, n) ==
    LET k == Count(col)
        S == Total(col)
        Q == TotalSq(col)
    IN [i \in 1..Len(col) |-> ~Inlier(col[i], n, k, S, Q)]

\* ~inliers
OutlierMask(t, n) ==
    [columns |-> t.columns, index |-> t.index,
     data |-> [c \in Range(t.columns) |-> Outliers(t.data[c], n)]]

within_n_std(h, ref, n) ==
    LET t == h[ref]
        outliers == OutlierMask(t, n)
    IN IF AnyTrue(outliers) THEN Raise(bad_locations(outliers), None)
       ELSE Pass(ref)

(* ------------------------------ has_dtypes ----------------------------- *)

\* the loop over items: a sequence of <<k, v>>, v a type tag
RECURSIVE HasDtypesLoop(_, _, _)
HasDtypesLoop(t, ref, items) ==
    IF Len(items) = 0 THEN Pass(ref)
    ELSE LET k == Head(items)[1]
             v == Head(items)[2]
         IN IF ~(t.dtypes[k] = v)
            THEN Raise([column |-> k, dtype |-> v], Some(k))
            ELSE HasDtypesLoop(t, ref, Tail(items))

has_dtypes(h, ref, items) == HasDtypesLoop(h[ref], ref, items)

(* ------------------------------ the caller ----------------------------- *)

\* the lists of distinct columns a caller may name, in any order
ColumnLists(t) == {s \in UNION {[1..k -> Range(t.columns)] : k \in 0..Len(t.columns)} :
                     \A i, j \in 1..Len(s) : i # j => s[i] # s[j]}

\* the items dictionaries over a table's columns, as the sequence of
\* <<key, value>> that items.items() yields
ItemLists(t, params) ==
    UNION {{[i \in 1..Len(cl) |-> <<cl[i], ps[i]>>] : ps \in [1..Len(cl) -> params]}
           : cl \in ColumnLists(t)}

\* the cell values of a table's domain: bounds and allowed sets are drawn
\* from them
Numbers(maxVal) == 0..maxVal

NoCall == [op |-> "none", args |-> None]
NoResult == [outcome |-> "none", ret |-> None, payload |-> None, at |-> None]

InitWith(tables) ==
    /\ \E t \in tables : heap = [r \in {1} |-> t]
    /\ df = 1
    /\ call = NoCall
    /\ result = NoResult

\* no check has been called yet
FirstCall == call = NoCall

\* The caller invokes a check on the table it holds.  A check that returns
\* hands back the reference the next check is applied to; after a failure
\* the caller still holds the table it passed in.  No check assigns to the
\* table.
Invoke(op, args, res) ==
    /\ call' = [op |-> op, args |-> args, df |-> df]
    /\ result' = res
    /\ df' = IF res.outcome = "pass" THEN res.ret[1] ELSE df
    /\ UNCHANGED heap

Call_none_missing ==
    \E columns \in {None} \cup {Some(s) : s \in ColumnLists(heap[df])} :
        Invoke("none_missing", [columns |-> columns], none_missing(heap, df, columns))

\* items omitted: increasing and strict apply to every column
Call_is_monotonic_all ==
    \E increasing \in Directions, strict \in BOOLEAN :
        Invoke("is_monotonic",
               [items |-> None, increasing |-> increasing, strict |-> strict],
               is_monotonic(heap, df, None, increasing, strict))

\* items given: increasing and strict keep their defaults and are not read
Call_is_monotonic_items ==
    \E items \in ItemLists(heap[df], Directions \X BOOLEAN) :
        Invoke("is_monotonic",
               [items |-> Some(items), increasing |-> "None", strict |-> FALSE],
               is_monotonic(heap, df, Some(items), "None", FALSE))

Call_is_shape(maxRows) ==
    \E shp \in (0..maxRows) \X (0..Len(heap[df].columns)) :
        Invoke("is_shape", [shape |-> shp], is_shape(heap, df, shp))

Call_unique_index ==
    Invoke("unique_index", None, unique_index(heap, df))

Call_within_set(maxVal) ==
    \E items \in ItemLists(heap[df], SUBSET Numbers(maxVal)) :
        Invoke("within_set", [items |-> items], within_set(heap, df, items))

Call_within_range(maxVal) ==
    \E items \in ItemLists(heap[df], Numbers(maxVal) \X Numbers(maxVal)) :
        Invoke("within_range", [items |-> items], within_range(heap, df, items))

Call_within_n_std(ns) ==
    \E n \in ns :
        Invoke("within_n_std", [n |-> n], within_n_std(heap, df, n))

Call_has_dtypes ==
    \E items \in ItemLists(heap[df], Dtypes) :
        Invoke("has_dtypes", [items |-> items], has_dtypes(heap, df, items))

(* --------------------------- specifications ---------------------------- *)

\* One-column tables with arbitrary row identifiers and dtypes; the caller
\* chains any of the eight checks, each on what the previous one returned.
Init ==
    InitWith({t \in Tables(<<"a">>, MaxRows, {NaN} \cup Numbers(MaxVal), AnyIndex(RowIds)) :
                WellTyped(t)})

Next ==
    \/ Call_none_missing
    \/ Call_is_monotonic_all
    \/ Call_is_monotonic_items
    \/ Call_is_shape(MaxRows)
    \/ Call_unique_index
    \/ Call_within_set(MaxVal)
    \/ Call_within_range(MaxVal)
    \/ Call_within_n_std(0..MaxN)
    \/ Call_has_dtypes

Spec == Init /\ [][Next]_vars

\* Two-column tables; the caller makes one call of a check that takes
\* columns or items, or of within_n_std.
InitCols ==
    InitWith({t \in Tables(<<"a", "b">>, MaxRows, {NaN} \cup Numbers(MaxVal), RangeIndex) :
                DefaultTyped(t)})

NextCols ==
    \/ FirstCall /\ Call_none_missing
    \/ FirstCall /\ Call_is_monotonic_all
    \/ FirstCall /\ Call_is_monotonic_items
    \/ FirstCall /\ Call_within_set(MaxVal)
    \/ FirstCall /\ Call_within_range(MaxVal)
    \/ FirstCall /\ Call_within_n_std(0..MaxN)
    \/ FirstCall /\ Call_has_dtypes

SpecCols == InitCols /\ [][NextCols]_vars

\* One-column tables, longer and over more values; is_monotonic only.
InitMono ==
    InitWith({t \in Tables(<<"a">>, MonoRows, {NaN} \cup Numbers(MonoMaxVal), RangeIndex) :
                DefaultTyped(t)})

NextMono ==
    \/ Call_is_monotonic_all
    \/ Call_is_monotonic_items

SpecMono == InitMono /\ [][NextMono]_vars

\* One sorted column, long enough to hold a cell three standard deviations
\* from the mean; one call of within_n_std with the default n.
InitStd == InitWith(SortedTables("a", StdRows, StdMaxVal))

NextStd == FirstCall /\ Call_within_n_std({DefaultN})

SpecStd == InitStd /\ [][NextStd]_vars

\* Tables of row identifiers alone; unique_index only.
InitIndex == InitWith(Tables(<<>>, IdxRows, {}, AnyIndex(1..MaxId)))

NextIndex == Call_unique_index

SpecIndex == InitIndex /\ [][NextIndex]_vars

(* ------------------------------- claims -------------------------------- *)

\* the table the last call was handed, and one of its columns
Arg == heap[call.df]
Col(c) == Arg.data[c]
Called(op) == call.op = op

\* the items the last is_monotonic call looped over
MonoItems ==
    IF call.args.items = None
    THEN [i \in 1..Len(Arg.columns) |->
            <<Arg.columns[i], <<call.args.increasing, call.args.strict>>>>]
    ELSE call.args.items[1]

NonDecreasing(s) == \A i \in 1..(Len(s) - 1) : Le(s[i], s[i + 1])
NonIncreasing(s) == \A i \in 1..(Len(s) - 1) : Le(s[i + 1], s[i])
Ascending(s) == \A i \in 1..(Len(s) - 1) : Lt(s[i], s[i + 1])
Descending(s) == \A i \in 1..(Len(s) - 1) : Lt(s[i + 1], s[i])
NoneMissing(s) == \A i \in 1..Len(s) : ~isnull(s[i])
EqualPair(s) == \E i \in 1..(Len(s) - 1) : ~isnull(s[i]) /\ s[i] = s[i + 1]
MonotoneIn(s, d) ==
    IF d = "True" THEN NonDecreasing(s)
    ELSE IF d = "False" THEN NonIncreasing(s)
    ELSE NonDecreasing(s) \/ NonIncreasing(s)

\* the position of the first item of `items` that Bad holds of, 0 if none
FirstBad(items, Bad(_)) ==
    IF \E i \in 1..Len(items) : Bad(items[i])
    THEN CHOOSE i \in 1..Len(items) : Bad(items[i]) /\ \A j \in 1..(i - 1) : ~Bad(items[j])
    ELSE 0

\* C1: every check that succeeds returns the very reference it was handed,
\* and no call, succeeding or failing, changes any table: cells, columns,
\* index and dtypes stay what they were.  Stated of every step of every
\* chain of checks.
C1_PassThrough ==
    [][ /\ heap' = heap
        /\ result'.outcome = "pass" => result'.ret = Some(df) ]_vars

\* C1 witness: within_range has succeeded on a listed column of a table of
\* MaxRows rows, and the caller holds the reference it returned
C1_Witness ==
    /\ Called("within_range")
    /\ result.outcome = "pass"
    /\ result.ret = Some(df)
    /\ Len(Arg.index) = MaxRows
    /\ call.args.items # <<>>

\* C2: a column that is non-strictly monotonic in the direction asked for
\* and holds two equal consecutive values passes the non-strict check and
\* fails the strict check in that direction.
C2_StrictnessTightening ==
    (Called("is_monotonic") /\ Len(MonoItems) = 1) =>
        LET col == Col(MonoItems[1][1])
            d == MonoItems[1][2][1]
            strict == MonoItems[1][2][2]
        IN (MonotoneIn(col, d) /\ EqualPair(col)) =>
              result.outcome = (IF strict THEN "fail" ELSE "pass")

\* C2 witness: the strict check in unspecified direction has rejected a
\* non-decreasing column of three rows that repeats a value and then rises
C2_Witness ==
    /\ Called("is_monotonic") /\ Len(MonoItems) = 1
    /\ MonoItems[1][2] = <<"None", TRUE>>
    /\ LET col == Col(MonoItems[1][1])
       IN Len(col) = 3 /\ col[1] = col[2] /\ Lt(col[2], col[3])
    /\ result.outcome = "fail"

\* the three parts of the unspecified-direction duality, for the column of
\* a one-column call with increasing=None; Sorted(col) says when a column
\* counts as sorted at all
Duality(Sorted(_)) ==
    (Called("is_monotonic") /\ Len(MonoItems) = 1 /\ MonoItems[1][2][1] = "None") =>
        LET col == Col(MonoItems[1][1])
        IN /\ (Sorted(col) /\ Ascending(col)) => result.outcome = "pass"
           /\ (Sorted(col) /\ Descending(col)) => result.outcome = "pass"
           /\ (~NonDecreasing(col) /\ ~NonIncreasing(col)) => result.outcome = "fail"

\* C3 as stated: with increasing=None, a column in which each value is
\* greater than its predecessor passes with and without strict, so does a
\* column in which each value is less than its predecessor, and a column
\* that is neither non-decreasing nor non-increasing fails either way.
C3_Original == Duality(LAMBDA col : TRUE)

\* C3 amended: the same, for ascending and descending columns without a
\* missing cell (a column whose only cell is missing is rejected).
C3_Duality == Duality(NoneMissing)

\* C3 witness: the strict check in unspecified direction has accepted a
\* descending column of three rows
C3_Witness ==
    /\ Called("is_monotonic") /\ Len(MonoItems) = 1
    /\ MonoItems[1][2] = <<"None", TRUE>>
    /\ LET col == Col(MonoItems[1][1])
       IN Len(col) = 3 /\ Descending(col)
    /\ result.outcome = "pass"

\* C4 as stated: on a table whose columns are all empty or all hold one
\* row, is_monotonic passes under every direction and strictness.
C4_Original ==
    (Called("is_monotonic") /\ Len(Arg.index) <= 1) => result.outcome = "pass"

\* C4 amended: on a table whose columns are all empty or all hold one row
\* that is not missing, is_monotonic passes under every direction and
\* strictness.
C4_VacuousTruth ==
    (/\ Called("is_monotonic")
     /\ Len(Arg.index) <= 1
     /\ \A c \in Range(Arg.columns) : NoneMissing(Col(c)))
        => result.outcome = "pass"

\* C4 witness: the strict decreasing check has accepted a one-row table
C4_Witness ==
    /\ Called("is_monotonic") /\ Len(MonoItems) = 1
    /\ MonoItems[1][2] = <<"False", TRUE>>
    /\ Len(Arg.index) = 1
    /\ NoneMissing(Col(MonoItems[1][1]))
    /\ result.outcome = "pass"

\* the items of the last within_set, within_range or has_dtypes call
Items == call.args.items
Key(item) == item[1]
Lower(item) == item[2][1]
Upper(item) == item[2][2]

\* the (row identifier, flag) pairs a within_range failure carries
RangeMask == result.payload[2]

\* "a value equal to a bound does not cause a failure": no cell that a
\* failure flags equals a bound of its column, for the items InScope holds of
BoundsNotFlagged(InScope(_)) ==
    result.outcome = "fail" =>
        \A j \in 1..Len(Items) :
            (result.at = Some(Key(Items[j])) /\ InScope(Items[j])) =>
                \A i \in Rows(Arg) :
                    Col(Key(Items[j]))[i] \in {Lower(Items[j]), Upper(Items[j])}
                        => RangeMask[i][2] = FALSE

\* "a value one unit outside either bound does cause a failure"
OneOutsideFails ==
    (\E j \in 1..Len(Items) : \E i \in Rows(Arg) :
        LET v == Col(Key(Items[j]))[i]
        IN ~isnull(v) /\ (v = Lower(Items[j]) - 1 \/ v = Upper(Items[j]) + 1))
      => result.outcome = "fail"

\* C5 as stated: a value equal to lower or to upper does not cause a
\* failure, a value one unit outside does, and within_range passes exactly
\* when every value v of every listed column satisfies lower <= v <= upper.
C5_Original ==
    Called("within_range") =>
        /\ BoundsNotFlagged(LAMBDA item : TRUE)
        /\ OneOutsideFails
        /\ result.outcome = "pass" <=>
             \A j \in 1..Len(Items) : \A i \in Rows(Arg) :
                /\ Le(Lower(Items[j]), Col(Key(Items[j]))[i])
                /\ Le(Col(Key(Items[j]))[i], Upper(Items[j]))

\* C5 amended: for bounds lower <= upper a value equal to lower or to upper
\* does not cause a failure; a value one unit outside does; and
\* within_range passes exactly when no value of a listed column is below
\* its lower or above its upper bound: a missing cell never fails it.
C5_RangeInclusive ==
    Called("within_range") =>
        /\ BoundsNotFlagged(LAMBDA item : Lower(item) <= Upper(item))
        /\ OneOutsideFails
        /\ result.outcome = "pass" <=>
             \A j \in 1..Len(Items) : \A i \in Rows(Arg) :
                LET v == Col(Key(Items[j]))[i]
                IN isnull(v) \/ (Lower(Items[j]) <= v /\ v <= Upper(Items[j]))

\* C5 witness: within_range has passed on two listed columns, one holding
\* its lower and its upper bound, the other a missing cell
C5_Witness ==
    /\ Called("within_range") /\ Len(Items) = 2
    /\ result.outcome = "pass"
    /\ Lower(Items[1]) < Upper(Items[1])
    /\ Lower(Items[1]) \in Range(Col(Key(Items[1])))
    /\ Upper(Items[1]) \in Range(Col(Key(Items[1])))
    /\ NaN \in Range(Col(Key(Items[2])))

\* whether the last failure's location report names the cell (row i, column c)
Reported(c, i) ==
    /\ result.outcome = "fail"
    /\ \E p \in 1..Len(result.payload) : result.payload[p] = <<Arg.index[i], c>>

\* Where each cell of a column lies relative to n standard deviations from
\* the column's mean: "inside", "at" or "beyond" ("missing" for a missing
\* cell).  With k non-missing cells, sum S and sum of squares Q, the
\* squared distance and the squared limit, both times k^2 * (k - 1), are
\* (k*v - S)^2 * (k - 1) and n^2 * k * (k*Q - S^2).
Places(col, n) ==
    LET k == Sum([i \in 1..Len(col) |-> IF isnull(col[i]) THEN 0 ELSE 1])
        S == Sum([i \in 1..Len(col) |-> IF isnull(col[i]) THEN 0 ELSE col[i]])
        Q == Sum([i \in 1..Len(col) |-> IF isnull(col[i]) THEN 0 ELSE col[i] * col[i]])
        limit == n * n * k * (k * Q - S * S)
    IN [i \in 1..Len(col) |->
          LET dist == (k * col[i] - S) * (k * col[i] - S) * (k - 1)
          IN IF isnull(col[i]) THEN "missing"
             ELSE IF dist < limit THEN "inside"
             ELSE IF dist = limit THEN "at"
             ELSE "beyond"]

\* the column has two or more non-missing cells, so a standard deviation
HasStd(col) == Cardinality({i \in 1..Len(col) : ~isnull(col[i])}) >= 2

\* a column of two or more non-missing cells, all equal
ZeroStd(col) ==
    /\ HasStd(col)
    /\ \A i, j \in 1..Len(col) : (~isnull(col[i]) /\ ~isnull(col[j])) => col[i] = col[j]

\* C6 as stated: with n=3, a cell exactly 3 standard deviations from its
\* column's mean is an inlier, so that a table whose cells are all inside
\* or at that distance passes, and a cell further away makes the check
\* fail.  (For columns of positive standard deviation: the boundary at a
\* standard deviation of zero is C10's.)
C6_Original ==
    (/\ Called("within_n_std") /\ call.args.n = DefaultN
     /\ \A c \in Range(Arg.columns) : HasStd(Col(c)) /\ ~ZeroStd(Col(c)))
        => /\ (\A c \in Range(Arg.columns) :
                  Range(Places(Col(c), DefaultN)) \subseteq {"inside", "at"})
              => result.outcome = "pass"
           /\ (\E c \in Range(Arg.columns) : "beyond" \in Range(Places(Col(c), DefaultN)))
              => result.outcome = "fail"

\* C6 amended: with n=3, a cell exactly 3 standard deviations from its
\* column's mean is an outlier and makes the check fail, as does a cell
\* further away; a table passes when every cell is closer than that.
C6_OutlierBoundary ==
    (/\ Called("within_n_std") /\ call.args.n = DefaultN
     /\ \A c \in Range(Arg.columns) : HasStd(Col(c)))
        => /\ (\A c \in Range(Arg.columns) : Range(Places(Col(c), DefaultN)) = {"inside"})
              => result.outcome = "pass"
           /\ (\E c \in Range(Arg.columns) : "at" \in Range(Places(Col(c), DefaultN)))
              => result.outcome = "fail"
           /\ (\E c \in Range(Arg.columns) : "beyond" \in Range(Places(Col(c), DefaultN)))
              => result.outcome = "fail"

\* C6 witness: within_n_std with n=3 has failed on a column of positive
\* standard deviation whose last cell lies exactly 3 standard deviations
\* from the mean, every other cell being closer
C6_Witness ==
    /\ Called("within_n_std") /\ call.args.n = DefaultN
    /\ result.outcome = "fail"
    /\ \E c \in Range(Arg.columns) :
          /\ ~ZeroStd(Col(c))
          /\ Len(Col(c)) >= 2
          /\ Places(Col(c), DefaultN) =
               [i \in Rows(Arg) |-> IF i = Len(Col(c)) THEN "at" ELSE "inside"]

\* how often x occurs in the index
Occurrences(idx, x) == Cardinality({i \in 1..Len(idx) : idx[i] = x})

\* C7: unique_index passes exactly when every row identifier occurs once;
\* when it fails, its payload lists the identifiers that occur more than
\* once, each of them once, and nothing else.
C7_UniqueIndex ==
    Called("unique_index") =>
        LET dup == {x \in Range(Arg.index) : Occurrences(Arg.index, x) > 1}
        IN /\ result.outcome = "pass" <=> dup = {}
           /\ result.outcome = "fail" =>
                /\ Range(result.payload) = dup
                /\ Len(result.payload) = Cardinality(dup)

\* C7 witness: unique_index has failed on the index [1, 2, 2, 3] with the
\* payload [2]
C7_Witness ==
    /\ Called("unique_index")
    /\ Arg.index = <<1, 2, 2, 3>>
    /\ result.outcome = "fail"
    /\ result.payload = <<2>>

\* what makes an item of each looping check a violation
MonoBad(item) == ~MonotonicGood(Col(Key(item)), item[2][1], item[2][2])
SetBad(item) == \E i \in Rows(Arg) : Col(Key(item))[i] \notin item[2]
RangeBad(item) ==
    \E i \in Rows(Arg) : Lt(Col(Key(item))[i], Lower(item)) \/ Lt(Upper(item), Col(Key(item))[i])
DtypeBad(item) == Arg.dtypes[Key(item)] # item[2]

\* a looping check fails exactly when an item violates, and then it stood
\* at the first violating item's column with the payload for that column
FailsAtFirst(items, Bad(_), Payload(_)) ==
    LET f == FirstBad(items, Bad)
    IN IF f = 0 THEN result.outcome = "pass"
       ELSE /\ result.outcome = "fail"
            /\ result.at = Some(Key(items[f]))
            /\ result.payload = Payload(items[f])

\* the rows of a column outside the allowed set, with their row identifiers
NonMembers(item) ==
    LET rows == SortedSeq({i \in Rows(Arg) : Col(Key(item))[i] \notin item[2]})
    IN [p \in 1..Len(rows) |-> <<Arg.index[rows[p]], Col(Key(item))[rows[p]]>>]

\* the out-of-range flags of a column's rows, with their row identifiers
RangeFlags(item) ==
    [i \in Rows(Arg) |->
        <<Arg.index[i],
          Lt(Col(Key(item))[i], Lower(item)) \/ Lt(Upper(item), Col(Key(item))[i])>>]

\* C8: is_monotonic, within_set, within_range and has_dtypes fail for the
\* first violating column in the order of items and report that column
\* alone (within_set: its non-member values by row identifier), whatever
\* later columns hold; none_missing and within_n_std fail once, with a
\* report that names every violating cell of the checked table.
C8_FailFastOrAggregate ==
    /\ Called("is_monotonic") => FailsAtFirst(MonoItems, MonoBad, LAMBDA item : None)
    /\ Called("within_set") =>
          FailsAtFirst(Items, SetBad, LAMBDA item : <<"Not in set", NonMembers(item)>>)
    /\ Called("within_range") =>
          FailsAtFirst(Items, RangeBad, LAMBDA item : <<"Outside range", RangeFlags(item)>>)
    /\ Called("has_dtypes") =>
          FailsAtFirst(Items, DtypeBad,
                       LAMBDA item : [column |-> Key(item), dtype |-> item[2]])
    /\ Called("none_missing") =>
          LET cols == IF call.args.columns = None THEN Arg.columns
                      ELSE call.args.columns[1]
          IN \A c \in Range(cols) : \A i \in Rows(Arg) : isnull(Col(c)[i]) => Reported(c, i)
    /\ Called("within_n_std") =>
          \A c \in Range(Arg.columns) : \A i \in Rows(Arg) :
              (~HasStd(Col(c)) \/ Places(Col(c), call.args.n)[i] # "inside")
                 => Reported(c, i)

\* C8 witness: within_set has failed on two listed columns that both hold
\* non-members, reporting the first listed one
C8_Witness ==
    /\ Called("within_set") /\ Len(Items) = 2
    /\ SetBad(Items[1]) /\ SetBad(Items[2])
    /\ Key(Items[1]) = "b"
    /\ result.outcome = "fail"
    /\ result.at = Some("b")

\* C9: none_missing fails exactly when a cell of the listed columns is
\* missing, and its report names the missing cells of the listed columns
\* and no others; with columns omitted, the listed columns are all columns.
C9_ColumnsRestriction ==
    Called("none_missing") =>
        LET cols == IF call.args.columns = None THEN Arg.columns
                    ELSE call.args.columns[1]
            missing == {<<Arg.index[i], c>> : <<i, c>> \in
                          {x \in Rows(Arg) \X Range(cols) : isnull(Col(x[2])[x[1]])}}
        IN /\ result.outcome = "fail" <=> missing # {}
           /\ result.outcome = "fail" => Range(result.payload) = missing

\* C9 witness: none_missing restricted to column a has passed on a table
\* whose column b holds a missing cell
C9_Witness ==
    /\ Called("none_missing")
    /\ call.args.columns = Some(<<"a">>)
    /\ NaN \in Range(Col("b"))
    /\ result.outcome = "pass"

\* C10: within_n_std never passes on a table with a column of zero standard
\* deviation: for every n the check fails and reports every cell of that
\* column as an outlier.
C10_ZeroStdFails ==
    Called("within_n_std") =>
        \A c \in Range(Arg.columns) :
            ZeroStd(Col(c)) =>
                /\ result.outcome = "fail"
                /\ \A i \in Rows(Arg) : Reported(c, i)

\* C10 witness: within_n_std with the largest n has failed on a table whose
\* column a is constant, reporting the cells of column a alone
C10_Witness ==
    /\ Called("within_n_std") /\ call.args.n = MaxN
    /\ Len(Arg.index) >= 2
    /\ ZeroStd(Col("a")) /\ NoneMissing(Col("a"))
    /\ result.outcome = "fail"
    /\ \A i \in Rows(Arg) : Reported("a", i) /\ ~Reported("b", i)

====
